---- MODULE Spec2Model ----
(***************************************************************************)
(* keep3r-beep3r: liveness tracking of the MakerDAO Sequencer jobs.        *)
(*                                                                         *)
(* An async function is cut at its awaits: an action runs the code from    *)
(* the settlement of one awaited call (or from a timer callback) up to the *)
(* next await; the job loop of processBlockNumber takes one action per     *)
(* iteration.  Timer callbacks (the block tick, the janitor) run only      *)
(* while no synchronous code runs.                                         *)
(*                                                                         *)
(* The repository holds the scheduler in two revisions: the single-file    *)
(* program src/src/index.ts, and the split program (block_processor.ts in  *)
(* src/unnamed/part_005, app.ts in src/unnamed/part_008, job_manager.ts in *)
(* src/unnamed/part_009).  They share the bootstrap, the per-job update    *)
(* and the janitor, and differ in processNewBlocks and in what a failed    *)
(* getMaster() or workable() does.  Spec is the single-file program,       *)
(* SpecModular the split one.                                              *)
(***************************************************************************)
EXTENDS Integers, Sequences, FiniteSets, TLC

\* ------------------------------------------------------------------ bounds
MaxBlocks == 2          \* blocks the chain grows after the process started
MaxTime == 1            \* clock readings after the start
MaxFailures == 1        \* failing external calls (RPC, webhook) in one run
MaxSlots == 2           \* processNewBlocks invocations that can be suspended at once
MaxWork == 1            \* Work events emitted after the process started
MaxQuietBlocks == 999   \* blocks mined in a row while the Sequencer has no leader
MaxIntervals == 3        \* intervals of the block timer in a run of on-time ticks

\* --------------------------------------------------- program configuration
UNWORKED_BLOCKS_THRESHOLD == 2   \* env UNWORKED_BLOCKS_THRESHOLD
MAX_JOB_AGE == 0                 \* env MAX_JOB_AGE, in clock readings
BLOCK_BATCH_INTERVAL_MINUTES == 5
BLOCK_CHECK_INTERVAL == 15000
LOOKBACK == 1000

IGNORED_ARGS_MESSAGES ==
    {"No ilks ready", "Flap not possible", "No distribution", "No work to do",
     "shouldUpdate is false"}

\* Job addresses, and the job lists the Sequencer registry can hold.
Addresses == {"j1", "j2"}
Registry == <<"j1", "j2">>
SmallRegistry == <<"j1">>

\* Heights the chain can have when main() starts.
BootHeights == {1002}

ZeroHash == "0x00"
Masters == {ZeroHash, "0xMaster"}

\* ------------------------------------------------------------ reason bytes
\* workable() returns (bool, bytes).  A bytes value is either the UTF-8
\* encoding of a string or a byte sequence that is no valid UTF-8.
Utf8(s) == [valid |-> TRUE, text |-> s]
InvalidBytes == [valid |-> FALSE, text |-> "80"]
ArgsBytes == {Utf8(""), Utf8("No work to do"), Utf8("SomeReason"), InvalidBytes}
WorkableResults == [canWork : BOOLEAN, args : ArgsBytes]

\* new TextDecoder().decode(ethers.getBytes(argsBytes)): the default decoder is
\* not fatal, a malformed sequence decodes to U+FFFD and nothing is thrown.
Decode(bytes) == IF bytes.valid THEN bytes.text ELSE "U+FFFD"

VARIABLES
    revision,           \* which program runs: "index.ts" or "block_processor.ts"
    config,             \* what the program read from its environment at startup
    activeJobs,         \* the registry's job list, in jobAt() order
    height,             \* the chain's current block number
    workEvents,         \* [Addresses -> SUBSET Nat]: blocks at which the job emitted Work
    bootHeight,         \* chain height when the process started (bounds the run)
    now,                \* Date.now()
    mainPc,             \* position of main(): "start", "initialized", "running", "exited"
    exitCode,           \* process exit status, -1 while running
    jobStates,          \* keys of the jobStates Map
    jobState,           \* the JobState objects, by address
    lastProcessedBlock, \* module-level watermark
    processingBlocks,   \* module-level re-entrancy flag
    frames,             \* [1..MaxSlots -> frame]: suspended processNewBlocks invocations
    lastAlertBlock,     \* per job: block of its last delivered alert, -1 if none (history)
    alertSuppressed,    \* per job: "[Alert suppressed]" was logged since its counter was last 0 (history)
    lastTick,           \* what the block timer's last callback did during this tick (history)
    failures            \* failed external calls so far

vars == <<revision, config, activeJobs, height, workEvents, bootHeight, now, mainPc, exitCode,
          jobStates, jobState, lastProcessedBlock, processingBlocks, frames,
          lastAlertBlock, alertSuppressed, lastTick, failures>>

Slots == 1..MaxSlots

Jobs == {activeJobs[k] : k \in 1..Len(activeJobs)}

NoState == [address |-> "", lastWorkedBlock |-> 0, lastCheckedBlock |-> 0,
            consecutiveUnworkedBlocks |-> 0, lastUpdateTime |-> 0]

\* The locals of one processNewBlocks invocation and of the processBlockNumber
\* call it awaits.  result is workableResults[i], the entry the loop body reads.
NoResult == [canWork |-> FALSE, args |-> Utf8("")]
IdleFrame == [pc |-> "idle", currentBlock |-> 0, block |-> 0, toBlock |-> 0,
              networkIdentifier |-> "",
              blockNumber |-> 0, jobStatesArray |-> <<>>, i |-> 0,
              result |-> NoResult, previousCheckedBlock |-> 0, argsString |-> "",
              unworkedBlocks |-> 0, lastProcessedBlock |-> 0]

Max(a, b) == IF a >= b THEN a ELSE b
Min(a, b) == IF a <= b THEN a ELSE b

\* ------------------------------------------------------------- bootstrap
\* The floor taken without the clamp at block 0.
LookbackFloorUnclamped(currentBlock) == currentBlock - LOOKBACK

\* const fromBlock = currentBlock >= 1000 ? currentBlock - 1000 : 0
LookbackFloor(currentBlock) ==
    IF currentBlock >= LOOKBACK THEN currentBlock - LOOKBACK ELSE 0

\* provider.getLogs over [fromBlock, toBlock] for one job address.
GetLogs(job, fromBlock, toBlock) ==
    {e \in workEvents[job] : fromBlock <= e /\ e <= toBlock}

SetMax(S) == CHOOSE m \in S : \A x \in S : x <= m

\* lastWorkedBlocks.get(address): the highest event block, or -1 for undefined.
LastWorkedBlocksGet(job, fromBlock, toBlock) ==
    IF GetLogs(job, fromBlock, toBlock) = {} THEN -1
    ELSE SetMax(GetLogs(job, fromBlock, toBlock))

\* if (lastWorkedBlock): undefined and 0n are both falsy.
Truthy(lastWorkedBlock) == lastWorkedBlock > 0

\* lastCheckedBlock written by initializeJobStates.
InitialCheckedBlock(currentBlock) == currentBlock - 1

\* The record initializeJobStates stores for one job at height currentBlock.
InitialJobState(job, currentBlock) ==
    LET fromBlock == LookbackFloor(currentBlock)
        lastWorkedBlock == LastWorkedBlocksGet(job, fromBlock, currentBlock)
    IN [address |-> job,
        \* lastWorkedBlock ?? fromBlock
        lastWorkedBlock |-> IF lastWorkedBlock = -1 THEN fromBlock ELSE lastWorkedBlock,
        lastCheckedBlock |-> InitialCheckedBlock(currentBlock),
        consecutiveUnworkedBlocks |->
            IF Truthy(lastWorkedBlock) THEN currentBlock - lastWorkedBlock
            ELSE currentBlock - fromBlock,
        lastUpdateTime |-> now]

\* The bootstrap sending an alert for a seed at or above the threshold.
InitializationAlertAtThreshold(consecutiveUnworkedBlocks, argsString) ==
    consecutiveUnworkedBlocks >= UNWORKED_BLOCKS_THRESHOLD

\* initializeJobStates calls sendDiscordAlert for no job: the job_manager
\* revision that compares the seed with the threshold only logs ("Only log
\* initialization status, don't send alerts during init").
InitializationAlert(consecutiveUnworkedBlocks, argsString) == FALSE

\* ------------------------------------------------- per-job reconciliation
\* The answer true only for more than one event.
WasWorkedMany(events) == Cardinality(events) > 1

\* return events.length > 0
WasWorked(events) == events # {}

\* jobState.consecutiveUnworkedBlocks += BigInt(1)
CanWorkCounter(counter) == counter + 1

\* The not-worked branch counting one block whatever the gap.
NotWorkedCounterOne(counter, blockNumber, previousCheckedBlock) == counter + 1

\* The not-worked branch clearing the counter instead of adding the gap.
NotWorkedCounterReset(counter, blockNumber, previousCheckedBlock) == 0

\* jobState.consecutiveUnworkedBlocks += blockNumber - previousCheckedBlock
NotWorkedCounter(counter, blockNumber, previousCheckedBlock) ==
    counter + (blockNumber - previousCheckedBlock)

\* The reset on a found Work event left out.
WorkedCounterKept(counter) == counter

\* jobState.consecutiveUnworkedBlocks = BigInt(0) after a Work event was found
WorkedCounter(counter) == 0

\* The reset after the alert left out.
AlertedCounterKept(counter) == counter

\* jobState.consecutiveUnworkedBlocks = BigInt(0) after sendDiscordAlert returned
AlertedCounter(counter) == 0

\* The comparison written > and written ===.
ReachedThresholdStrict(counter) == counter > UNWORKED_BLOCKS_THRESHOLD
ReachedThresholdExactly(counter) == counter = UNWORKED_BLOCKS_THRESHOLD

\* jobState.consecutiveUnworkedBlocks >= UNWORKED_BLOCKS_THRESHOLD
ReachedThreshold(counter) == counter >= UNWORKED_BLOCKS_THRESHOLD

\* The suppression list never consulted.
SuppressedNever(argsString) == FALSE

\* argsString && IGNORED_ARGS_MESSAGES.includes(argsString)
Suppressed(argsString) == argsString # "" /\ argsString \in IGNORED_ARGS_MESSAGES

\* Math.max(1, Math.floor((BLOCK_BATCH_INTERVAL_MINUTES * 60 * 1000) / BLOCK_CHECK_INTERVAL))
blockBatchIntervalBlocks ==
    Max(1, (BLOCK_BATCH_INTERVAL_MINUTES * 60 * 1000) \div BLOCK_CHECK_INTERVAL)

\* The batch taken one block too long.
ToBlockLong(block, currentBlock) ==
    IF block + config.blockBatchIntervalBlocks > currentBlock THEN currentBlock
    ELSE block + config.blockBatchIntervalBlocks

\* toBlock of the batch that starts at block
ToBlock(block, currentBlock) ==
    IF block + config.blockBatchIntervalBlocks - 1 > currentBlock THEN currentBlock
    ELSE block + config.blockBatchIntervalBlocks - 1

Monolith == revision = "index.ts"

\* A world is what one invocation of processNewBlocks reads and writes while
\* it runs: its own frame f, the JobState objects js, the flag, the log of
\* suppressed alerts, and the watermark lpb: the module-level
\* lastProcessedBlock of index.ts, the parameter lastProcessedBlock of
\* block_processor.ts.
World(s) == [f |-> frames[s], js |-> jobState,
             lpb |-> IF Monolith THEN lastProcessedBlock
                     ELSE frames[s].lastProcessedBlock,
             flag |-> processingBlocks,
             sup |-> alertSuppressed]

CurrentJob(f) == f.jobStatesArray[f.i]

\* finally { processingBlocks = false } after the loops ran to their end
Finish(w) == [w EXCEPT !.f = IdleFrame, !.flag = FALSE]

\* The catch without the finally: the flag stays set.
TickErrorFlagKept(w) == [w EXCEPT !.f = IdleFrame]

\* catch (error) { console.error(...) } finally { processingBlocks = false }
TickError(w) == [w EXCEPT !.f = IdleFrame, !.flag = FALSE]

\* processBlockNumber(blockNumber) is called: it suspends at getMaster()
CallProcessBlockNumber(w, block, toBlock, blockNumber) ==
    [w EXCEPT !.f = [IdleFrame EXCEPT !.pc = "getMaster",
                                      !.currentBlock = w.f.currentBlock,
                                      !.block = block, !.toBlock = toBlock,
                                      !.blockNumber = blockNumber]]

\* The for loops of processNewBlocks, entered at lastProcessedBlock + 1.
EnterLoops(w) ==
    LET block == w.lpb + 1
    IN IF block <= w.f.currentBlock
       THEN CallProcessBlockNumber(w, block, ToBlock(block, w.f.currentBlock), block)
       ELSE Finish(w)

\* processBlockNumber(b) returned: lastProcessedBlock = b, then the next b of
\* the inner loop, the next batch of the outer loop, or the end of the tick.
BlockDone(w) ==
    LET w1 == [w EXCEPT !.lpb = w.f.blockNumber]
        b == w.f.blockNumber + 1
        block == w.f.block + config.blockBatchIntervalBlocks
    IN IF b <= w.f.toBlock
       THEN CallProcessBlockNumber(w1, w.f.block, w.f.toBlock, b)
       ELSE IF block <= w.f.currentBlock
            THEN CallProcessBlockNumber(w1, block, ToBlock(block, w.f.currentBlock), block)
            ELSE Finish(w1)

\* End of the loop body for job i: the next iteration, which will read
\* workableResults[i + 1] = nextResult, or the end of processBlockNumber.
JobDone(w, nextResult) ==
    IF w.f.i < Len(w.f.jobStatesArray)
    THEN [w EXCEPT !.f.pc = "job", !.f.i = @ + 1, !.f.result = nextResult,
                   !.f.previousCheckedBlock = 0, !.f.argsString = "",
                   !.f.unworkedBlocks = 0]
    ELSE BlockDone(w)

\* jobState.lastUpdateTime = Date.now(), then the threshold check: a
\* suppressed reason only logs, any other reason awaits sendDiscordAlert
\* with (address, consecutiveUnworkedBlocks, blockNumber, argsString).
CheckThreshold(w, nextResult) ==
    LET job == CurrentJob(w.f)
        w1 == [w EXCEPT !.js[job].lastUpdateTime = now]
    IN IF ReachedThreshold(w1.js[job].consecutiveUnworkedBlocks)
       THEN IF Suppressed(w1.f.argsString)
            THEN JobDone([w1 EXCEPT !.sup[job] = TRUE], nextResult)
            ELSE [w1 EXCEPT !.f.pc = "sendDiscordAlert",
                            !.f.result = NoResult,
                            !.f.unworkedBlocks = w1.js[job].consecutiveUnworkedBlocks]
       ELSE JobDone(w1, nextResult)

\* The loop body for job i up to its first await: decode the reason, move
\* lastCheckedBlock, and either count the block (canWork) or query the logs.
StartJob(w, nextResult) ==
    LET job == CurrentJob(w.f)
        w1 == [w EXCEPT !.f.argsString = Decode(w.f.result.args),
                        !.f.previousCheckedBlock = w.js[job].lastCheckedBlock,
                        !.js[job].lastCheckedBlock = w.f.blockNumber]
    IN IF w.f.result.canWork
       THEN CheckThreshold([w1 EXCEPT !.js[job].consecutiveUnworkedBlocks =
                                           CanWorkCounter(@)], nextResult)
       ELSE [w1 EXCEPT !.f.pc = "getLogs", !.f.result = NoResult]

\* checkIfJobWasWorked returned wasWorked.
AfterCheckIfJobWasWorked(w, wasWorked, nextResult) ==
    LET job == CurrentJob(w.f)
    IN IF wasWorked
       THEN CheckThreshold([w EXCEPT
                !.js[job].lastWorkedBlock = w.f.blockNumber,
                !.js[job].consecutiveUnworkedBlocks = WorkedCounter(@),
                !.sup[job] = FALSE], nextResult)
       ELSE CheckThreshold([w EXCEPT
                !.js[job].consecutiveUnworkedBlocks =
                    NotWorkedCounter(@, w.f.blockNumber, w.f.previousCheckedBlock)],
                nextResult)

\* await sendDiscordAlert(...) returned: reset the counter, end of the loop body.
AfterSendDiscordAlert(w, nextResult) ==
    LET job == CurrentJob(w.f)
    IN JobDone([w EXCEPT !.js[job].consecutiveUnworkedBlocks = AlertedCounter(@),
                         !.sup[job] = FALSE], nextResult)

\* sendDiscordAlert catching its own error and returning normally.
SendDiscordAlertSwallowed(w) == AfterSendDiscordAlert(w, NoResult)

\* await sendDiscordAlert(...) threw: the error leaves processBlockNumber and
\* is caught by processNewBlocks.
SendDiscordAlertThrew(w) == TickError(w)

\* Promise.all(workable calls) resolved, workableResults[0] = firstResult:
\* the job loop starts.
AfterWorkable(w, firstResult) ==
    IF Len(w.f.jobStatesArray) = 0 THEN BlockDone(w)
    ELSE [w EXCEPT !.f.i = 1, !.f.pc = "job", !.f.result = firstResult]

\* getMaster() or the workable() calls rejected.  index.ts has no try/catch
\* in processBlockNumber: the error ends the tick.  block_processor.ts
\* catches it and returns: the block is over.
CallFailed(w) == IF Monolith THEN TickError(w) ELSE BlockDone(w)

\* ------------------------------------------------------------------ state
\* Work events a job can have emitted before the process starts at height H.
History(H) ==
    {{}, {H}}

\* The configuration of the defaults and of the environment above.
DefaultConfig ==
    [blockBatchIntervalBlocks |-> blockBatchIntervalBlocks, MAX_JOB_AGE |-> MAX_JOB_AGE]

\* The chain and the process when main() starts.
BootState ==
    /\ bootHeight \in BootHeights
    /\ height = bootHeight
    /\ workEvents \in [Addresses -> History(bootHeight)]
    /\ \A j \in Addresses \ Jobs : workEvents[j] = {}
    /\ now = 0
    /\ mainPc = "start"
    /\ exitCode = -1
    /\ jobStates = {}
    /\ jobState = [j \in Addresses |-> NoState]
    /\ lastProcessedBlock = 0
    /\ processingBlocks = FALSE
    /\ frames = [s \in Slots |-> IdleFrame]
    /\ lastAlertBlock = [j \in Addresses |-> -1]
    /\ alertSuppressed = [j \in Addresses |-> FALSE]
    /\ lastTick = "none"
    /\ failures = 0

Boot == config = DefaultConfig /\ BootState

Init == revision = "index.ts" /\ activeJobs = Registry /\ Boot

InitModular == revision = "block_processor.ts" /\ activeJobs = SmallRegistry /\ Boot

\* The step of invocation s that leads to world w.  In block_processor.ts the
\* watermark is the invocation's own until it returns { lastProcessedBlock }
\* and the timer callback of app.ts assigns it to the module-level variable.
Apply(s, w) ==
    /\ jobState' = w.js
    /\ processingBlocks' = w.flag
    /\ alertSuppressed' = w.sup
    /\ IF Monolith
       THEN /\ frames' = [frames EXCEPT ![s] = w.f]
            /\ lastProcessedBlock' = w.lpb
       ELSE IF w.f.pc = "idle"
            THEN /\ frames' = [frames EXCEPT ![s] = IdleFrame]
                 /\ lastProcessedBlock' = w.lpb
            ELSE /\ frames' = [frames EXCEPT ![s] =
                                  [w.f EXCEPT !.lastProcessedBlock = w.lpb]]
                 /\ UNCHANGED lastProcessedBlock
    /\ lastTick' = IF \A t \in Slots : frames'[t].pc = "idle" THEN "none" ELSE lastTick

\* The step of invocation s that leads to Continue(nextResult): the entry
\* workableResults[i + 1] is drawn when the step ends iteration i and another
\* follows.
Step(s, Continue(_)) ==
    IF Continue(NoResult).f.pc = "job"
    THEN \E nextResult \in WorkableResults : Apply(s, Continue(nextResult))
    ELSE Apply(s, Continue(NoResult))

CanFail == failures < MaxFailures
Fail == failures' = failures + 1

\* Array.from(jobStates.values()): the Map keeps insertion order.
JobStatesArray == SelectSeq(activeJobs, LAMBDA j : j \in jobStates)

\* Synchronous code of a job-loop iteration is running: no timer callback
\* starts before it reaches an await.
Running == \E s \in Slots : frames[s].pc = "job"

setup == <<revision, config, activeJobs, bootHeight>>
chain == <<height, workEvents>>
process == <<mainPc, exitCode>>

\* ------------------------------------------------------------ environment
\* The Work events emitted since the process started.
WorkAfterStart ==
    UNION {{<<j, e>> : e \in {x \in workEvents[j] : x > bootHeight}} : j \in Addresses}

\* A new block is mined; any of the jobs may emit Work in it.  A tick that
\* already read the height never looks at a later block, so the blocks mined
\* while it runs are mined, in the model, when it is over.
ChainAdvance ==
    /\ mainPc # "exited"
    /\ height < bootHeight + MaxBlocks
    /\ \A s \in Slots : frames[s].pc \in {"idle", "getBlockNumber"}
    /\ height' = height + 1
    /\ \E worked \in SUBSET Jobs :
          /\ Cardinality(WorkAfterStart) + Cardinality(worked) <= MaxWork
          /\ workEvents' = [j \in Addresses |->
                IF j \in worked THEN workEvents[j] \cup {height + 1} ELSE workEvents[j]]
    /\ UNCHANGED <<setup, now, process, jobStates, jobState, lastProcessedBlock,
                   processingBlocks, frames, lastAlertBlock, alertSuppressed,
                   lastTick, failures>>

ClockTick ==
    /\ mainPc # "exited"
    /\ ~Running
    /\ now < MaxTime
    /\ now' = now + 1
    /\ UNCHANGED <<setup, chain, process, jobStates, jobState, lastProcessedBlock,
                   processingBlocks, frames, lastAlertBlock, alertSuppressed,
                   lastTick, failures>>

\* ------------------------------------------------------------------ main()
\* The bootstrap storing a record for the first job of the registry only.
initializeJobStatesFirstOnly ==
    /\ mainPc = "start"
    /\ jobStates' = {activeJobs[1]}
    /\ jobState' = [j \in Addresses |->
                       IF j = activeJobs[1] THEN InitialJobState(j, height) ELSE NoState]
    /\ mainPc' = "initialized"
    /\ UNCHANGED <<setup, chain, now, exitCode, lastProcessedBlock, processingBlocks,
                   frames, lastAlertBlock, alertSuppressed, lastTick, failures>>

\* main() up to the end of initializeJobStates(activeJobs), every call
\* resolving: a record is stored for every job of the registry.
initializeJobStates ==
    /\ mainPc = "start"
    /\ jobStates' = Jobs
    /\ jobState' = [j \in Addresses |->
                       IF j \in Jobs THEN InitialJobState(j, height) ELSE NoState]
    /\ \E workableResults \in [Jobs -> WorkableResults] :
          lastAlertBlock' = [j \in Addresses |->
              IF /\ j \in Jobs
                 /\ InitializationAlert(InitialJobState(j, height).consecutiveUnworkedBlocks,
                                        Decode(workableResults[j].args))
              THEN height ELSE lastAlertBlock[j]]
    /\ mainPc' = "initialized"
    /\ UNCHANGED <<setup, chain, now, exitCode, lastProcessedBlock, processingBlocks,
                   frames, alertSuppressed, lastTick, failures>>

\* The rejection caught and logged by main(), which goes on to set its timer.
initializeJobStatesCaught ==
    /\ mainPc = "start"
    /\ CanFail /\ Fail
    /\ mainPc' = "running"
    /\ lastProcessedBlock' = height
    /\ UNCHANGED <<setup, chain, now, exitCode, jobStates, jobState,
                   processingBlocks, frames, lastAlertBlock, alertSuppressed, lastTick>>

\* A call of main() or of initializeJobStates rejected (getNetwork,
\* getBlockNumber, getActiveJobs, getLogs, getMaster, workable: all of them
\* come before the first jobStates.set): the catch of main() exits with 1.
initializeJobStatesThrew ==
    /\ mainPc = "start"
    /\ CanFail /\ Fail
    /\ mainPc' = "exited"
    /\ exitCode' = 1
    /\ UNCHANGED <<setup, chain, now, jobStates, jobState, lastProcessedBlock,
                   processingBlocks, frames, lastAlertBlock, alertSuppressed, lastTick>>

\* lastProcessedBlock = BigInt(await multicallProvider.getBlockNumber()), then
\* the two setInterval calls.
setIntervals ==
    /\ mainPc = "initialized"
    /\ lastProcessedBlock' = height
    /\ mainPc' = "running"
    /\ UNCHANGED <<setup, chain, now, exitCode, jobStates, jobState, processingBlocks,
                   frames, lastAlertBlock, alertSuppressed, lastTick, failures>>

\* That getBlockNumber() rejected: the catch of main() exits with 1.
getBlockNumberThrew ==
    /\ mainPc = "initialized"
    /\ CanFail /\ Fail
    /\ mainPc' = "exited"
    /\ exitCode' = 1
    /\ UNCHANGED <<setup, chain, now, jobStates, jobState, lastProcessedBlock,
                   processingBlocks, frames, lastAlertBlock, alertSuppressed, lastTick>>

\* ------------------------------------------------------- processNewBlocks
IdleSlots == {s \in Slots : frames[s].pc = "idle"}
FreeSlot == CHOOSE s \in IdleSlots : \A t \in IdleSlots : s <= t

\* index.ts: if (processingBlocks) { log; return } on the module-level flag
AlreadyProcessing == processingBlocks

\* block_processor.ts: let processingBlocks = false; if (processingBlocks) ...
\* The flag is a local of the call.
AlreadyProcessingLocal == FALSE

\* The block timer fires and calls processNewBlocks(): a no-op if the guard
\* finds the flag set, otherwise the flag is set and the call suspends at
\* getBlockNumber().  block_processor.ts is called with the module-level
\* lastProcessedBlock of app.ts.
processNewBlocks ==
    /\ mainPc = "running"
    /\ ~Running
    /\ IF Monolith
       THEN IF AlreadyProcessing
            THEN /\ lastTick' = "skipped"
                 /\ UNCHANGED <<frames, processingBlocks>>
            ELSE /\ IdleSlots # {}
                 /\ frames' = [frames EXCEPT ![FreeSlot] =
                                   [IdleFrame EXCEPT !.pc = "getBlockNumber"]]
                 /\ processingBlocks' = TRUE
                 /\ lastTick' = "started"
       ELSE IF AlreadyProcessingLocal
            THEN /\ lastTick' = "skipped"
                 /\ UNCHANGED <<frames, processingBlocks>>
            ELSE /\ IdleSlots # {}
                 /\ frames' = [frames EXCEPT ![FreeSlot] =
                                   [IdleFrame EXCEPT !.pc = "getBlockNumber",
                                                     !.lastProcessedBlock = lastProcessedBlock]]
                 /\ lastTick' = "started"
                 /\ UNCHANGED processingBlocks
    /\ UNCHANGED <<setup, chain, now, process, jobStates, jobState, lastProcessedBlock,
                   lastAlertBlock, alertSuppressed, failures>>

\* if (!lastProcessedBlock) lastProcessedBlock = currentBlock - 1: 0n is falsy.
InitialWatermark(watermark, currentBlock) ==
    IF watermark = 0 THEN currentBlock - 1 ELSE watermark

\* What an invocation's step leaves alone.
Outside == <<setup, chain, now, process, jobStates>>

\* getBlockNumber() resolved: the watermark is initialised if unset and the
\* loops start.
getBlockNumberResolved(s) ==
    /\ frames[s].pc = "getBlockNumber"
    /\ ~Running
    /\ Apply(s, EnterLoops([World(s) EXCEPT !.f.currentBlock = height,
                                            !.lpb = InitialWatermark(@, height)]))
    /\ UNCHANGED <<Outside, lastAlertBlock, failures>>

\* getBlockNumber() rejected: caught by processNewBlocks, the tick is over.
getBlockNumberRejected(s) ==
    /\ frames[s].pc = "getBlockNumber"
    /\ ~Running
    /\ CanFail /\ Fail
    /\ Apply(s, TickError(World(s)))
    /\ UNCHANGED <<Outside, lastAlertBlock>>

\* ----------------------------------------------------- processBlockNumber
\* The zero-master test left out.
NoActiveMasterNever(networkIdentifier) == FALSE

\* networkIdentifier === ethers.ZeroHash
NoActiveMaster(networkIdentifier) == networkIdentifier = ZeroHash

\* sequencerContract.getMaster() resolved: a zero master skips the block, any
\* other master issues workable() for every job of the Map.
getMasterResolved(s, networkIdentifier) ==
    /\ frames[s].pc = "getMaster"
    /\ ~Running
    /\ IF NoActiveMaster(networkIdentifier)
       THEN Apply(s, BlockDone(World(s)))
       ELSE Apply(s, [World(s) EXCEPT !.f.pc = "workable",
                                      !.f.networkIdentifier = networkIdentifier,
                                      !.f.jobStatesArray = JobStatesArray])
    /\ UNCHANGED <<Outside, lastAlertBlock, failures>>

getMasterRejected(s) ==
    /\ frames[s].pc = "getMaster"
    /\ ~Running
    /\ CanFail /\ Fail
    /\ Apply(s, CallFailed(World(s)))
    /\ UNCHANGED <<Outside, lastAlertBlock>>

\* Promise.all of the workable() calls resolved: the job loop starts.
workableResolved(s) ==
    /\ frames[s].pc = "workable"
    /\ ~Running
    /\ Step(s, LAMBDA firstResult : AfterWorkable(World(s), firstResult))
    /\ UNCHANGED <<Outside, lastAlertBlock, failures>>

\* One rejected workable() call rejects the Promise.all.
workableRejected(s) ==
    /\ frames[s].pc = "workable"
    /\ ~Running
    /\ frames[s].jobStatesArray # <<>>
    /\ CanFail /\ Fail
    /\ Apply(s, CallFailed(World(s)))
    /\ UNCHANGED <<Outside, lastAlertBlock>>

\* One iteration of the job loop, up to its end or its first await.
jobLoop(s) ==
    /\ frames[s].pc = "job"
    /\ Step(s, LAMBDA nextResult : StartJob(World(s), nextResult))
    /\ UNCHANGED <<Outside, lastAlertBlock, failures>>

\* checkIfJobWasWorked(address, previousCheckedBlock + 1, blockNumber): its
\* getLogs query resolved, the answer is events.length > 0.
checkIfJobWasWorked(s) ==
    /\ frames[s].pc = "getLogs"
    /\ ~Running
    /\ Step(s, LAMBDA nextResult :
                    AfterCheckIfJobWasWorked(World(s),
                        WasWorked(GetLogs(CurrentJob(frames[s]),
                                          frames[s].previousCheckedBlock + 1,
                                          frames[s].blockNumber)),
                        nextResult))
    /\ UNCHANGED <<Outside, lastAlertBlock, failures>>

\* Its getLogs query rejected: checkIfJobWasWorked catches and returns false.
checkIfJobWasWorkedCaught(s) ==
    /\ frames[s].pc = "getLogs"
    /\ ~Running
    /\ CanFail /\ Fail
    /\ Step(s, LAMBDA nextResult :
                    AfterCheckIfJobWasWorked(World(s), FALSE, nextResult))
    /\ UNCHANGED <<Outside, lastAlertBlock>>

\* sendDiscordAlert returned: the webhook answered OK.
sendDiscordAlert(s) ==
    /\ frames[s].pc = "sendDiscordAlert"
    /\ ~Running
    /\ lastAlertBlock' = [lastAlertBlock EXCEPT
                             ![CurrentJob(frames[s])] = frames[s].blockNumber]
    /\ Step(s, LAMBDA nextResult : AfterSendDiscordAlert(World(s), nextResult))
    /\ UNCHANGED <<Outside, failures>>

\* sendDiscordAlert threw: a network error or a non-OK response.
sendDiscordAlertFailed(s) ==
    /\ frames[s].pc = "sendDiscordAlert"
    /\ ~Running
    /\ CanFail /\ Fail
    /\ Apply(s, SendDiscordAlertThrew(World(s)))
    /\ UNCHANGED <<Outside, lastAlertBlock>>

\* ----------------------------------------------------------------- janitor
\* The comparison written >=.
InactiveAtAge(currentTime, state) ==
    currentTime - state.lastUpdateTime >= config.MAX_JOB_AGE

\* currentTime - state.lastUpdateTime > MAX_JOB_AGE
Inactive(currentTime, state) ==
    currentTime - state.lastUpdateTime > config.MAX_JOB_AGE

\* The cleanup timer fires: every inactive record is deleted from the Map.
cleanupInactiveJobs ==
    /\ mainPc = "running"
    /\ ~Running
    /\ jobStates' = {j \in jobStates : ~Inactive(now, jobState[j])}
    /\ UNCHANGED <<setup, chain, now, process, jobState, lastProcessedBlock,
                   processingBlocks, frames, lastAlertBlock, alertSuppressed,
                   lastTick, failures>>

\* ---------------------------------------------------------- specifications
Next ==
    \/ ChainAdvance
    \/ ClockTick
    \/ initializeJobStates
    \/ initializeJobStatesThrew
    \/ setIntervals
    \/ getBlockNumberThrew
    \/ processNewBlocks
    \/ \E s \in Slots : getBlockNumberResolved(s)
    \/ \E s \in Slots : getBlockNumberRejected(s)
    \/ \E s \in Slots, networkIdentifier \in Masters : getMasterResolved(s, networkIdentifier)
    \/ \E s \in Slots : getMasterRejected(s)
    \/ \E s \in Slots : workableResolved(s)
    \/ \E s \in Slots : workableRejected(s)
    \/ \E s \in Slots : jobLoop(s)
    \/ \E s \in Slots : checkIfJobWasWorked(s)
    \/ \E s \in Slots : checkIfJobWasWorkedCaught(s)
    \/ \E s \in Slots : sendDiscordAlert(s)
    \/ \E s \in Slots : sendDiscordAlertFailed(s)
    \/ cleanupInactiveJobs

\* The single-file program, src/src/index.ts.
Spec == Init /\ [][Next]_vars

\* The split program's scheduler, its janitor timer left out.
NextModular ==
    \/ ChainAdvance
    \/ initializeJobStates
    \/ initializeJobStatesThrew
    \/ setIntervals
    \/ getBlockNumberThrew
    \/ processNewBlocks
    \/ \E s \in Slots : getBlockNumberResolved(s)
    \/ \E s \in Slots : getBlockNumberRejected(s)
    \/ \E s \in Slots, networkIdentifier \in Masters : getMasterResolved(s, networkIdentifier)
    \/ \E s \in Slots : getMasterRejected(s)
    \/ \E s \in Slots : workableResolved(s)
    \/ \E s \in Slots : workableRejected(s)
    \/ \E s \in Slots : jobLoop(s)
    \/ \E s \in Slots : checkIfJobWasWorked(s)
    \/ \E s \in Slots : checkIfJobWasWorkedCaught(s)
    \/ \E s \in Slots : sendDiscordAlert(s)
    \/ \E s \in Slots : sendDiscordAlertFailed(s)

SpecModular == InitModular /\ [][NextModular]_vars

\* ------------------------------------------------------ the bootstrap alone
\* Heights at which initializeJobStates can find the chain: at and around
\* block 0 and the first height whose lookback floor is above 0.
WideBootHeights == {0, 1, LOOKBACK - 1, LOOKBACK, LOOKBACK + 1, LOOKBACK + 2}

\* Blocks of the chain at height H in which a job can have emitted Work: the
\* ends of the chain, and the blocks at and around the lookback floor.
HistoryBlocks(H) ==
    {b \in {0, 1, H - LOOKBACK - 1, H - LOOKBACK, H - LOOKBACK + 1, H - 1, H} :
        0 <= b /\ b <= H}

InitBoot ==
    /\ revision = "index.ts"
    /\ config = DefaultConfig
    /\ activeJobs = Registry
    /\ bootHeight \in WideBootHeights
    /\ height = bootHeight
    /\ workEvents \in [Addresses -> SUBSET HistoryBlocks(bootHeight)]
    /\ now = 0
    /\ mainPc = "start"
    /\ exitCode = -1
    /\ jobStates = {}
    /\ jobState = [j \in Addresses |-> NoState]
    /\ lastProcessedBlock = 0
    /\ processingBlocks = FALSE
    /\ frames = [s \in Slots |-> IdleFrame]
    /\ lastAlertBlock = [j \in Addresses |-> -1]
    /\ alertSuppressed = [j \in Addresses |-> FALSE]
    /\ lastTick = "none"
    /\ failures = 0

\* main() up to the return of initializeJobStates, on any chain.
NextBoot ==
    \/ initializeJobStates
    \/ initializeJobStatesThrew

SpecBoot == InitBoot /\ [][NextBoot]_vars

\* ------------------------------------------------- a run without a leader
\* A block is mined, without Work events, once the scheduler has caught up
\* with the chain.
ChainRuns ==
    /\ mainPc = "running"
    /\ \A s \in Slots : frames[s].pc = "idle"
    /\ lastProcessedBlock = height
    /\ height < bootHeight + MaxQuietBlocks
    /\ height' = height + 1
    /\ UNCHANGED <<setup, workEvents, now, process, jobStates, jobState,
                   lastProcessedBlock, processingBlocks, frames, lastAlertBlock,
                   alertSuppressed, lastTick, failures>>

\* What getMaster() answers for a block: the zero hash up to the end of the
\* run, anything after it.
QuietMasters(blockNumber) ==
    IF blockNumber < bootHeight + MaxQuietBlocks THEN {ZeroHash} ELSE Masters

InitOutage == revision = "index.ts" /\ activeJobs = SmallRegistry /\ Boot

\* The single-file program, every call resolving, on a chain whose Sequencer
\* has no leader for MaxQuietBlocks blocks after the start.
NextOutage ==
    \/ ChainRuns
    \/ initializeJobStates
    \/ setIntervals
    \/ processNewBlocks
    \/ \E s \in Slots : getBlockNumberResolved(s)
    \/ \E s \in Slots : \E networkIdentifier \in QuietMasters(frames[s].blockNumber) :
            getMasterResolved(s, networkIdentifier)
    \/ \E s \in Slots : workableResolved(s)
    \/ \E s \in Slots : jobLoop(s)
    \/ \E s \in Slots : checkIfJobWasWorked(s)
    \/ \E s \in Slots : sendDiscordAlert(s)

SpecOutage == InitOutage /\ [][NextOutage]_vars

\* ------------------------------------------------- ticks that come on time
\* MAX_JOB_AGE of two block-timer intervals, the clock counting intervals.
SteadyJobAge == 2

\* One interval of the block timer passes, the tick of the previous interval
\* having processed its block; a block without Work events is mined in it.
IntervalPasses ==
    /\ mainPc = "running"
    /\ \A s \in Slots : frames[s].pc = "idle"
    /\ lastProcessedBlock = height
    /\ now < MaxIntervals
    /\ now' = now + 1
    /\ height' = height + 1
    /\ UNCHANGED <<setup, workEvents, process, jobStates, jobState,
                   lastProcessedBlock, processingBlocks, frames, lastAlertBlock,
                   alertSuppressed, lastTick, failures>>

\* The block timer fires once in every interval: the block of the interval
\* is not processed yet.
OnTime == lastProcessedBlock < height

InitSteady ==
    /\ revision = "index.ts"
    /\ activeJobs = SmallRegistry
    /\ config = [DefaultConfig EXCEPT !.MAX_JOB_AGE = SteadyJobAge]
    /\ BootState

\* The single-file program with every call resolving and a tick in every
\* interval of the block timer, the cleanup timer firing at any time.
NextSteady ==
    \/ IntervalPasses
    \/ initializeJobStates
    \/ setIntervals
    \/ OnTime /\ processNewBlocks
    \/ \E s \in Slots : getBlockNumberResolved(s)
    \/ \E s \in Slots, networkIdentifier \in Masters : getMasterResolved(s, networkIdentifier)
    \/ \E s \in Slots : workableResolved(s)
    \/ \E s \in Slots : jobLoop(s)
    \/ \E s \in Slots : checkIfJobWasWorked(s)
    \/ \E s \in Slots : sendDiscordAlert(s)
    \/ cleanupInactiveJobs

SpecSteady == InitSteady /\ [][NextSteady]_vars

\* ------------------------------------------------------------ batch sizes
\* Values of blockBatchIntervalBlocks: batches of one block, batches shorter
\* than a tick's range, and the default.
BatchSizes == {1, 2, blockBatchIntervalBlocks}

InitBatch ==
    /\ revision = "index.ts"
    /\ activeJobs = SmallRegistry
    /\ config \in {[DefaultConfig EXCEPT !.blockBatchIntervalBlocks = n] : n \in BatchSizes}
    /\ BootState

\* The single-file program under every batch size.
SpecBatch == InitBatch /\ [][Next]_vars

\* ------------------------------------------------ the unworked-job scenario
\* The job whose alert is awaited, and the environment that keeps it unworked:
\* whenever its workable() result is read, canWork is true and the reason is
\* none of the suppression list.
Watched == "j2"

Unworked ==
    \A s \in Slots :
        (frames[s].pc = "job" /\ CurrentJob(frames[s]) = Watched)
            => /\ frames[s].result.canWork
               /\ Decode(frames[s].result.args) \notin IGNORED_ARGS_MESSAGES

\* The single-file program while every call resolves, the leader is never
\* zero, the chain advances under the running scheduler and the watched job
\* stays unworked.
NextLive ==
    \/ ChainAdvance /\ mainPc = "running"
    \/ ClockTick
    \/ initializeJobStates
    \/ setIntervals
    \/ processNewBlocks
    \/ \E s \in Slots : getBlockNumberResolved(s)
    \/ \E s \in Slots, networkIdentifier \in Masters \ {ZeroHash} :
            getMasterResolved(s, networkIdentifier)
    \/ \E s \in Slots : workableResolved(s) /\ Unworked'
    \/ \E s \in Slots : jobLoop(s) /\ Unworked'
    \/ \E s \in Slots : checkIfJobWasWorked(s) /\ Unworked'
    \/ \E s \in Slots : sendDiscordAlert(s) /\ Unworked'
    \/ cleanupInactiveJobs

\* What the event loop does next for main() and for the invocation in
\* progress: the awaited call settles or the synchronous code runs on.
Progress ==
    \/ initializeJobStates
    \/ setIntervals
    \/ \E s \in Slots : getBlockNumberResolved(s)
    \/ \E s \in Slots, networkIdentifier \in Masters \ {ZeroHash} :
            getMasterResolved(s, networkIdentifier)
    \/ \E s \in Slots : workableResolved(s) /\ Unworked'
    \/ \E s \in Slots : jobLoop(s) /\ Unworked'
    \/ \E s \in Slots : checkIfJobWasWorked(s) /\ Unworked'
    \/ \E s \in Slots : sendDiscordAlert(s) /\ Unworked'

\* The chain keeps producing blocks, setInterval keeps firing the block timer,
\* and the event loop keeps running what is ready.
Fairness ==
    /\ WF_vars(ChainAdvance /\ mainPc = "running")
    /\ WF_vars(processNewBlocks)
    /\ WF_vars(Progress)

SpecLive == Init /\ [][NextLive]_vars /\ Fairness

\* ------------------------------------------------------- steps of a frame
\* Invocation s takes a step.
Moves(s) == frames'[s] # frames[s]

\* The step of s that completes the counter update of its current job for
\* this block: the canWork branch of the loop body, or the return of
\* checkIfJobWasWorked.
CountsStep(s) == frames[s].pc = "job" /\ frames[s].result.canWork /\ Moves(s)
LogsStep(s) == frames[s].pc = "getLogs" /\ Moves(s)
Updates(s) == CountsStep(s) \/ LogsStep(s)

\* The decoded reason of the current job of s.
Reason(s) ==
    IF frames[s].pc = "job" THEN Decode(frames[s].result.args) ELSE frames[s].argsString

Counter(j) == jobState[j].consecutiveUnworkedBlocks
NewCounter(j) == jobState'[j].consecutiveUnworkedBlocks

\* The step of s leaves a sendDiscordAlert call for its current job in flight.
Calls(s) ==
    /\ frames'[s].pc = "sendDiscordAlert"
    /\ frames'[s].jobStatesArray = frames[s].jobStatesArray
    /\ frames'[s].i = frames[s].i
    /\ frames'[s].blockNumber = frames[s].blockNumber

\* The sendDiscordAlert call of s returns; it throws.
Returns(s) == frames[s].pc = "sendDiscordAlert" /\ Moves(s) /\ failures' = failures
Throws(s) == frames[s].pc = "sendDiscordAlert" /\ Moves(s) /\ failures' # failures

\* The getLogs query of s for its current job resolves with a Work event.
FindsWork(s) ==
    /\ frames[s].pc = "getLogs" /\ Moves(s) /\ failures' = failures
    /\ GetLogs(CurrentJob(frames[s]), frames[s].previousCheckedBlock + 1,
               frames[s].blockNumber) # {}

\* ------------------------------------------------------------------ claims
\* C1: a tracked job that stays unworked (leader non-zero, canWork true with a
\* reason outside the suppression list, every call succeeding, ticks firing
\* while the chain advances) is eventually alerted on, unless the janitor
\* drops it first; and once it has been reconciled its counter is at or above
\* the threshold only while the alert of that very block is being dispatched.
C1_AlertEventually ==
    /\ <>(lastAlertBlock[Watched] >= 0 \/ (mainPc = "running" /\ Watched \notin jobStates))
    /\ [](/\ jobState[Watched].lastCheckedBlock > bootHeight
          /\ Counter(Watched) >= UNWORKED_BLOCKS_THRESHOLD
          => \E s \in Slots :
                /\ frames[s].pc = "sendDiscordAlert"
                /\ CurrentJob(frames[s]) = Watched
                /\ frames[s].blockNumber = jobState[Watched].lastCheckedBlock)

C1_Witness ==
    /\ lastAlertBlock[Watched] = bootHeight + MaxBlocks
    /\ Counter(Watched) = 0
    /\ Watched \in jobStates

\* C2: consecutiveUnworkedBlocks is never negative, and a step that lowers it
\* sets it to exactly 0.  It holds of index.ts; in block_processor.ts two
\* overlapping invocations can process blocks out of order, and the gap
\* blockNumber - previousCheckedBlock is then negative.
C2_CounterNeverNegative ==
    /\ [](\A j \in Addresses : Counter(j) >= 0)
    /\ [][\A j \in Addresses : NewCounter(j) < Counter(j) => NewCounter(j) = 0]_vars

\* C3: every record satisfies lastCheckedBlock >= lastWorkedBlock.
C3_CheckedNotBeforeWorked ==
    \A j \in jobStates : jobState[j].lastCheckedBlock >= jobState[j].lastWorkedBlock

C5_AlertAtThreshold ==
    [][\A s \in Slots :
         /\ (/\ Updates(s)
             /\ NewCounter(CurrentJob(frames[s])) >= UNWORKED_BLOCKS_THRESHOLD
             /\ Reason(s) \notin IGNORED_ARGS_MESSAGES)
                => /\ Calls(s)
                   /\ CurrentJob(frames'[s]) = CurrentJob(frames[s])
                   /\ frames'[s].unworkedBlocks = NewCounter(CurrentJob(frames[s]))
                   /\ frames'[s].argsString = Reason(s)
         /\ Returns(s)
                => /\ NewCounter(CurrentJob(frames[s])) = 0
                   /\ ~Calls(s)
      ]_vars

C5_Witness ==
    \E s \in Slots :
        /\ frames[s].pc = "sendDiscordAlert"
        /\ frames[s].argsString = "SomeReason"
        /\ frames[s].unworkedBlocks = UNWORKED_BLOCKS_THRESHOLD
        /\ frames[s].blockNumber = bootHeight + MaxBlocks

\* C6: when the counter after this block's update is at or above the threshold
\* and the reason is a string of the suppression list, the update step makes
\* no sendDiscordAlert call and the counter keeps the incremented value: one
\* more on the canWork branch, the block gap more after an empty log query.
C6_SuppressedKeepsCounting ==
    [][\A s \in Slots :
         (/\ Updates(s)
          /\ NewCounter(CurrentJob(frames[s])) >= UNWORKED_BLOCKS_THRESHOLD
          /\ Reason(s) \in IGNORED_ARGS_MESSAGES)
             => /\ frames'[s].pc # "sendDiscordAlert"
                /\ CountsStep(s) =>
                      NewCounter(CurrentJob(frames[s])) = Counter(CurrentJob(frames[s])) + 1
                /\ LogsStep(s) =>
                      NewCounter(CurrentJob(frames[s])) =
                          Counter(CurrentJob(frames[s]))
                              + (frames[s].blockNumber - frames[s].previousCheckedBlock)
      ]_vars

C6_Witness ==
    \E j \in jobStates :
        /\ alertSuppressed[j]
        /\ Counter(j) = UNWORKED_BLOCKS_THRESHOLD + 1
        /\ lastAlertBlock[j] = -1

\* C7: a job whose alert was suppressed with the counter at or above the
\* threshold is alerted on in the first later update that finds it still
\* unworked with a reason outside the suppression list.
C7_SuppressionDoesNotMask ==
    [][\A s \in Slots :
         (/\ Updates(s)
          /\ alertSuppressed[CurrentJob(frames[s])]
          /\ Counter(CurrentJob(frames[s])) >= UNWORKED_BLOCKS_THRESHOLD
          /\ NewCounter(CurrentJob(frames[s])) >= Counter(CurrentJob(frames[s]))
          /\ Reason(s) \notin IGNORED_ARGS_MESSAGES)
             => /\ Calls(s)
                /\ CurrentJob(frames'[s]) = CurrentJob(frames[s])
      ]_vars

C7_Witness ==
    \E s \in Slots :
        /\ frames[s].pc = "sendDiscordAlert"
        /\ alertSuppressed[CurrentJob(frames[s])]
        /\ frames[s].unworkedBlocks > UNWORKED_BLOCKS_THRESHOLD

C9_AlertRateCap ==
    [][\A s \in Slots :
         (Returns(s) /\ lastAlertBlock[CurrentJob(frames[s])] >= 0)
            => frames[s].blockNumber - lastAlertBlock[CurrentJob(frames[s])]
                   >= UNWORKED_BLOCKS_THRESHOLD
      ]_vars

\* C10: at most one processNewBlocks invocation is in progress.  The flag of
\* block_processor.ts is a local of the function, so every invocation finds it
\* false.
C10_OneTickAtATime ==
    Cardinality({s \in Slots : frames[s].pc # "idle"}) <= 1

\* In index.ts at most one invocation is in progress: a timer callback that
\* finds the flag set starts nothing.
GuardedTick ==
    /\ [](Cardinality({s \in Slots : frames[s].pc # "idle"}) <= 1)
    /\ [][processingBlocks =>
            \A s \in Slots : frames[s].pc = "idle" => frames'[s].pc = "idle"]_vars

\* ------------------------------------------------ claims on the watermark
\* The watermark invocation s holds after its step: the module-level variable
\* in index.ts, its parameter in block_processor.ts until it returns.
NewWatermark(s) ==
    IF Monolith \/ frames'[s].pc = "idle" THEN lastProcessedBlock'
    ELSE frames'[s].lastProcessedBlock

\* The step of s calls processBlockNumber(frames'[s].blockNumber).
Hands(s) ==
    /\ frames'[s].pc = "getMaster"
    /\ frames[s].pc # "getMaster" \/ frames'[s].blockNumber # frames[s].blockNumber

\* getMaster() or the batched workable() of s rejects.
LookupFails(s) ==
    /\ frames[s].pc \in {"getMaster", "workable"}
    /\ Moves(s)
    /\ failures' # failures

\* C11: lastProcessedBlock never regresses: every new value is at least the
\* previous one.  It holds of index.ts; in block_processor.ts/app.ts two
\* overlapping invocations return their own watermarks and the later, lower
\* one overwrites the higher.
C11_WatermarkNeverRegresses ==
    [][lastProcessedBlock' >= lastProcessedBlock]_vars

\* C12: the blocks handed to processBlockNumber are consecutive and
\* increasing, starting at the bootstrap height + 1: the scheduler starts
\* with the watermark at the height initializeJobStates read (one above
\* the lastCheckedBlock it wrote), hands out the block after the watermark,
\* and moves the watermark one block at a time.
C12_BlocksInOrder ==
    [][/\ (mainPc = "initialized" /\ mainPc' = "running")
            => \A j \in jobStates : lastProcessedBlock' = jobState[j].lastCheckedBlock + 1
       /\ \A s \in Slots : Hands(s) => frames'[s].blockNumber = lastProcessedBlock' + 1
       /\ mainPc = "running"
            => lastProcessedBlock' \in {lastProcessedBlock, lastProcessedBlock + 1}
      ]_vars

\* C13: every record's lastCheckedBlock is non-decreasing.  It holds of
\* index.ts; with the overlapping invocations of block_processor.ts a lower
\* block is reconciled after a higher one.
C13_CheckedNeverRegresses ==
    [][\A j \in Addresses :
          jobState'[j].lastCheckedBlock >= jobState[j].lastCheckedBlock]_vars

\* C14: when the leader lookup or the batched workable() fails for block b,
\* the watermark stays below b.
C14_FailedBlockNotMarked ==
    [][\A s \in Slots :
          LookupFails(s) => NewWatermark(s) < frames[s].blockNumber]_vars

\* C18: on the canWork branch the counter grows by b - lastCheckedBlock, the
\* lastCheckedBlock being the record's before this block.
C18_CanWorkAddsGap ==
    [][\A s \in Slots :
          CountsStep(s)
             => NewCounter(CurrentJob(frames[s])) =
                   Counter(CurrentJob(frames[s]))
                      + (frames[s].blockNumber
                            - jobState[CurrentJob(frames[s])].lastCheckedBlock)
      ]_vars

\* C15: an error inside a tick is caught by processNewBlocks: the invocation
\* ends, the process keeps running, the watermark keeps its value and the
\* flag is released; the flag is set exactly while an invocation is in
\* progress, so the next timer callback starts, and it starts at
\* lastProcessedBlock + 1.
C15_TickErrorReleased ==
    /\ [](processingBlocks <=> \E s \in Slots : frames[s].pc # "idle")
    /\ [][\A s \in Slots :
            /\ (/\ frames[s].pc \notin {"idle", "getLogs"}
                /\ Moves(s)
                /\ failures' # failures)
                  => /\ frames'[s].pc = "idle"
                     /\ ~processingBlocks'
                     /\ mainPc' = "running"
                     /\ lastProcessedBlock' = lastProcessedBlock
            /\ (frames[s].pc = "getBlockNumber" /\ Hands(s))
                  => frames'[s].blockNumber = lastProcessedBlock + 1
         ]_vars

\* A tick is retrying the block in which an earlier tick failed.
C15_Witness ==
    /\ mainPc = "running"
    /\ failures = MaxFailures
    /\ \E s \in Slots, j \in jobStates :
          /\ frames[s].pc = "getMaster"
          /\ frames[s].blockNumber = lastProcessedBlock + 1
          /\ jobState[j].lastCheckedBlock = frames[s].blockNumber

\* C16: processBlockNumber(b) with a zero leader changes no record and makes
\* no workable() call, log query or alert dispatch: a call past getMaster()
\* has a non-zero leader, and a getMaster() that resolves without starting
\* the workable() calls leaves every record and alert as it was and ends
\* the block.
C16_ZeroLeaderChangesNothing ==
    /\ [](\A s \in Slots :
            frames[s].pc \in {"workable", "job", "getLogs", "sendDiscordAlert"}
               => frames[s].networkIdentifier # ZeroHash)
    /\ [][\A s \in Slots :
            (/\ frames[s].pc = "getMaster"
             /\ Moves(s)
             /\ failures' = failures
             /\ frames'[s].pc # "workable")
               => /\ jobState' = jobState
                  /\ lastAlertBlock' = lastAlertBlock
                  /\ frames'[s].pc \in {"getMaster", "idle"}
                  /\ NewWatermark(s) = frames[s].blockNumber
         ]_vars

\* The tick has passed its first block with a zero leader: the records are
\* the ones the bootstrap wrote.
C16_Witness ==
    /\ failures = 0
    /\ jobStates = Jobs
    /\ \A j \in Jobs : jobState[j] = InitialJobState(j, bootHeight)
    /\ \E s \in Slots :
          /\ frames[s].pc = "getMaster"
          /\ frames[s].block = bootHeight + 1
          /\ frames[s].blockNumber = bootHeight + 2

\* C17: when the batched workable() call of block b rejects, no record is
\* changed and the error reaches the tick: the invocation ends in its catch
\* with the watermark below b.
C17_WorkableFailureSurfaced ==
    [][\A s \in Slots :
          (frames[s].pc = "workable" /\ Moves(s) /\ failures' # failures)
             => /\ jobState' = jobState
                /\ frames'[s].pc = "idle"
                /\ NewWatermark(s) < frames[s].blockNumber
      ]_vars

\* The canWork = false branch of s suspends at the log query over
\* [lastCheckedBlock + 1, b], the lastCheckedBlock being the record's before
\* this block.
QueriesLogs(s) ==
    (frames[s].pc = "job" /\ ~frames[s].result.canWork /\ Moves(s))
       => /\ frames'[s].pc = "getLogs"
          /\ frames'[s].previousCheckedBlock = jobState[CurrentJob(frames[s])].lastCheckedBlock
          /\ frames'[s].blockNumber = frames[s].blockNumber
          /\ CurrentJob(frames'[s]) = CurrentJob(frames[s])

\* The getLogs query of s for its current job resolves without a Work event.
FindsNoWork(s) ==
    /\ frames[s].pc = "getLogs" /\ Moves(s) /\ failures' = failures
    /\ GetLogs(CurrentJob(frames[s]), frames[s].previousCheckedBlock + 1,
               frames[s].blockNumber) = {}

\* C19: with canWork = false and a Work event in [lastCheckedBlock + 1, b],
\* the record ends the block with lastWorkedBlock = b, counter 0 and
\* lastCheckedBlock = b.
C19_WorkedResets ==
    [][\A s \in Slots :
          /\ QueriesLogs(s)
          /\ FindsWork(s)
                => /\ jobState'[CurrentJob(frames[s])].lastWorkedBlock = frames[s].blockNumber
                   /\ jobState'[CurrentJob(frames[s])].lastCheckedBlock = frames[s].blockNumber
                   /\ NewCounter(CurrentJob(frames[s])) = 0
                   /\ ~Calls(s)
      ]_vars

C19_Witness ==
    \E j \in jobStates :
        /\ bootHeight + MaxBlocks \in workEvents[j]
        /\ jobState[j].lastWorkedBlock = bootHeight + MaxBlocks
        /\ jobState[j].lastCheckedBlock = bootHeight + MaxBlocks
        /\ Counter(j) = 0

FirstBlockAfterBootstrap(s, j, H) ==
    /\ frames[s].pc = "getLogs"
    /\ CurrentJob(frames[s]) = j
    /\ frames[s].blockNumber = H + 1
    /\ frames[s].previousCheckedBlock = InitialJobState(j, H).lastCheckedBlock
    /\ jobState[j].lastWorkedBlock = InitialJobState(j, H).lastWorkedBlock
    /\ Counter(j) = InitialJobState(j, H).consecutiveUnworkedBlocks

\* C21: right after a bootstrap at height H, reconciling block H + 1 for a
\* job with canWork = false and no Work event adds exactly 1 to the counter
\* the bootstrap seeded and leaves lastCheckedBlock = H + 1.
C21_FirstBlockCountsOnce ==
    [][\A s \in Slots : \A j \in Addresses :
          (FirstBlockAfterBootstrap(s, j, bootHeight) /\ FindsNoWork(s))
             => /\ NewCounter(j) = Counter(j) + 1
                /\ jobState'[j].lastCheckedBlock = bootHeight + 1
      ]_vars

\* The Work events of job j in [F, H], F being the lookback floor max(0, H - 1000).
FloorOf(H) == IF H - 1000 > 0 THEN H - 1000 ELSE 0
EventsSinceFloor(j, H) == {e \in workEvents[j] : FloorOf(H) <= e /\ e <= H}

\* C22: initializeJobStates at height H stores, for a job with a Work event in
\* [F, H], lastWorkedBlock = w, the highest such block, and counter H - w; for
\* a job with none, lastWorkedBlock = F and counter H - F.
C22_BootstrapSeed ==
    [][(mainPc = "start" /\ mainPc' = "initialized")
          => \A j \in Jobs :
                /\ j \in jobStates'
                /\ IF EventsSinceFloor(j, height) # {}
                   THEN \E w \in EventsSinceFloor(j, height) :
                           /\ \A e \in EventsSinceFloor(j, height) : e <= w
                           /\ jobState'[j].lastWorkedBlock = w
                           /\ NewCounter(j) = height - w
                   ELSE /\ jobState'[j].lastWorkedBlock = FloorOf(height)
                        /\ NewCounter(j) = height - FloorOf(height)
      ]_vars

\* Bootstrapped at a height whose floor is block 0, with one job last worked
\* in block 0 and another last worked in the block of the height itself.
C22_Witness ==
    /\ mainPc = "initialized"
    /\ height = LOOKBACK
    /\ \E j, k \in jobStates :
          /\ 0 \in workEvents[j]
          /\ jobState[j].lastWorkedBlock = 0
          /\ Counter(j) = height
          /\ jobState[k].lastWorkedBlock = height
          /\ Counter(k) = 0

\* C23: while main() is in its bootstrap no alert is dispatched for any job,
\* whatever the counter it is seeded with and whatever its reason: no alert has
\* been delivered, no sendDiscordAlert call is in flight, and the step that
\* stores the records delivers and starts none.
C23_NoAlertDuringBootstrap ==
    /\ [](mainPc = "start"
            => /\ \A j \in Addresses : lastAlertBlock[j] = -1
               /\ \A s \in Slots : frames[s].pc = "idle")
    /\ [][mainPc = "start"
            => /\ lastAlertBlock' = lastAlertBlock
               /\ \A s \in Slots : frames'[s].pc # "sendDiscordAlert"
      ]_vars

\* The bootstrap seeded a counter at or above the threshold and sent nothing.
C23_Witness ==
    /\ mainPc = "initialized"
    /\ \E j \in jobStates :
          /\ Counter(j) >= UNWORKED_BLOCKS_THRESHOLD
          /\ lastAlertBlock[j] = -1

C25_LogRangeBelowLookback ==
    \A s \in Slots :
        frames[s].pc = "getLogs"
            => frames[s].blockNumber - (frames[s].previousCheckedBlock + 1) + 1 < 1000

\* The getLogs query of s for its current job rejects.
LogQueryFails(s) == frames[s].pc = "getLogs" /\ Moves(s) /\ failures' # failures

\* C26: when the log query of a job fails while block b is reconciled, the
\* job's record keeps the lastCheckedBlock, counter and lastWorkedBlock it had
\* before block b.
C26_LogFailureKeepsRecord ==
    [][\A s \in Slots :
          LogQueryFails(s)
             => /\ jobState'[CurrentJob(frames[s])].lastCheckedBlock
                      = frames[s].previousCheckedBlock
                /\ NewCounter(CurrentJob(frames[s])) = Counter(CurrentJob(frames[s]))
                /\ jobState'[CurrentJob(frames[s])].lastWorkedBlock
                      = jobState[CurrentJob(frames[s])].lastWorkedBlock
      ]_vars

\* The step of s went on as after an answer false of checkIfJobWasWorked: the
\* gap is added, lastWorkedBlock keeps its value, the loop body runs to the
\* stamp of lastUpdateTime, and the tick goes on, or ends with the block done.
AnsweredFalse(s) ==
    /\ NewCounter(CurrentJob(frames[s]))
          = Counter(CurrentJob(frames[s]))
               + (frames[s].blockNumber - frames[s].previousCheckedBlock)
    /\ jobState'[CurrentJob(frames[s])].lastWorkedBlock
          = jobState[CurrentJob(frames[s])].lastWorkedBlock
    /\ jobState'[CurrentJob(frames[s])].lastUpdateTime = now
    /\ frames'[s].pc = "idle" => NewWatermark(s) = frames[s].blockNumber

\* C27: checkIfJobWasWorked issues one log query, over [from, to]; it answers
\* true exactly when the query returns an event, and answers false, without
\* throwing, when the query fails.
C27_CheckIfJobWasWorked ==
    [][\A s \in Slots :
          /\ QueriesLogs(s)
          /\ frames[s].pc = "getLogs" /\ Moves(s) => frames'[s].pc # "getLogs"
          /\ FindsWork(s)
                => jobState'[CurrentJob(frames[s])].lastWorkedBlock = frames[s].blockNumber
          /\ FindsNoWork(s) => AnsweredFalse(s)
          /\ LogQueryFails(s) => AnsweredFalse(s)
      ]_vars

\* The first block after the bootstrap held a Work event of the job, the
\* query over it failed, and the job went on to its alert with the gap added.
C27_Witness ==
    /\ failures = MaxFailures
    /\ \E s \in Slots :
          /\ frames[s].pc = "sendDiscordAlert"
          /\ frames[s].blockNumber = bootHeight + 1
          /\ frames[s].previousCheckedBlock = bootHeight - 1
          /\ frames[s].unworkedBlocks = LOOKBACK + 2
          /\ workEvents[CurrentJob(frames[s])] = {bootHeight + 1}
          /\ jobState[CurrentJob(frames[s])].lastWorkedBlock < bootHeight + 1

\* C28: when the alert dispatch of a job fails inside block b, the job's
\* record is not left with lastCheckedBlock = b and the incremented counter
\* the alert was sent for.
C28_PerJobAtomicity ==
    [][\A s \in Slots :
          Throws(s)
             => ~ /\ jobState'[CurrentJob(frames[s])].lastCheckedBlock = frames[s].blockNumber
                  /\ NewCounter(CurrentJob(frames[s])) = frames[s].unworkedBlocks
                  /\ frames[s].unworkedBlocks > 0
      ]_vars

\* The janitor deletes a record: the only step of the running program that
\* changes the keys of the Map.
Deletes == mainPc = "running" /\ jobStates' # jobStates

\* C29: the janitor deletes from the store only while no processNewBlocks
\* invocation is in progress.
C29_JanitorNotDuringTick ==
    [][Deletes => /\ ~processingBlocks
                  /\ \A s \in Slots : frames[s].pc = "idle"]_vars

\* C30: a janitor tick at time now removes exactly the records with
\* now - lastUpdateTime > MAX_JOB_AGE, and changes neither a record, nor
\* lastProcessedBlock, nor what has been alerted, nor a tick in progress.
C30_JanitorRemovesStale ==
    [][Deletes
          => /\ jobStates' = {j \in jobStates : now - jobState[j].lastUpdateTime <= MAX_JOB_AGE}
             /\ jobState' = jobState
             /\ lastProcessedBlock' = lastProcessedBlock
             /\ lastAlertBlock' = lastAlertBlock
             /\ frames' = frames
      ]_vars

\* One record was removed at age 1 while another, of age MAX_JOB_AGE, stayed.
C30_Witness ==
    /\ mainPc = "running"
    /\ \E j, k \in Jobs :
          /\ j \notin jobStates
          /\ now - jobState[j].lastUpdateTime > MAX_JOB_AGE
          /\ k \in jobStates
          /\ now - jobState[k].lastUpdateTime = MAX_JOB_AGE

\* C31: a successful initializeJobStates(jobs) on the empty store leaves
\* exactly one record per address of jobs, each under its own address; from
\* then on no step adds a record, and a record leaves the store only by the
\* janitor, which takes the inactive ones.
C31_OneRecordPerJob ==
    /\ [](\A j \in jobStates : jobState[j].address = j)
    /\ [][(mainPc = "start" /\ mainPc' = "initialized")
            => /\ jobStates = {}
               /\ jobStates' = Jobs]_vars
    /\ [][mainPc # "start"
            => /\ jobStates' \subseteq jobStates
               /\ jobStates' # jobStates
                    => /\ mainPc = "running"
                       /\ \A j \in jobStates \ jobStates' : Inactive(now, jobState[j])
                       /\ frames' = frames /\ jobState' = jobState]_vars

\* Both jobs of the registry were given a record, and the janitor has since
\* taken one of them.
C31_Witness ==
    /\ mainPc = "running"
    /\ Cardinality(Jobs) = 2
    /\ Cardinality(jobStates) = 1
    /\ \A j \in Jobs : jobState[j].address = j

\* processBlockNumber returns to the loops of invocation s, or s reads the
\* height, without a failed call.
EndsBlock(s) ==
    /\ frames[s].pc \in {"getMaster", "workable", "job", "getLogs", "sendDiscordAlert"}
    /\ failures' = failures
    /\ frames'[s] # frames[s]
    /\ frames'[s].pc \in {"idle", "getMaster"}
ReadsHeight(s) ==
    frames[s].pc = "getBlockNumber" /\ Moves(s) /\ failures' = failures

\* The watermark invocation s works with before its step: the module-level
\* variable, or in block_processor.ts its parameter.
Watermark(s) == IF Monolith THEN lastProcessedBlock ELSE frames[s].lastProcessedBlock

\* C32: a tick that starts with watermark L and reads height H > L hands
\* the blocks L+1..H to processBlockNumber one by one in increasing order,
\* each once, marks each processed when it returns, and ends at H: the order
\* in which blocks are handed out does not depend on the batch size.
C32_BatchSizeIrrelevant ==
    [][\A s \in Slots :
          /\ ReadsHeight(s)
                => IF Watermark(s) < height
                   THEN /\ frames'[s].pc = "getMaster"
                        /\ frames'[s].blockNumber = Watermark(s) + 1
                        /\ frames'[s].currentBlock = height
                   ELSE frames'[s].pc = "idle"
          /\ EndsBlock(s)
                => /\ NewWatermark(s) = frames[s].blockNumber
                   /\ IF frames[s].blockNumber < frames[s].currentBlock
                      THEN /\ frames'[s].pc = "getMaster"
                           /\ frames'[s].blockNumber = frames[s].blockNumber + 1
                           /\ frames'[s].currentBlock = frames[s].currentBlock
                      ELSE frames'[s].pc = "idle"
      ]_vars

\* A tick over two blocks in batches of one block has ended at the height.
C32_Witness ==
    /\ config.blockBatchIntervalBlocks = 1
    /\ failures = 0
    /\ mainPc = "running"
    /\ \A s \in Slots : frames[s].pc = "idle"
    /\ lastProcessedBlock = bootHeight + MaxBlocks
    /\ \E j \in jobStates : Counter(j) = LOOKBACK + MaxBlocks + 1

\* `Non-UTF8 args: ${argsBytes}` for the byte 0x80
NonUtf8Sentinel == "Non-UTF8 args: 0x80"

\* workable() gave the current job of s no reason; a reason that is no UTF-8.
NoReason(s) ==
    IF frames[s].pc = "job" THEN frames[s].result.args = Utf8("")
    ELSE frames[s].argsString = ""
UndecodableReason(s) ==
    IF frames[s].pc = "job" THEN ~frames[s].result.args.valid
    ELSE frames[s].argsString = Decode(InvalidBytes)

\* C33: when the counter after this block's update is at or above the
\* threshold and workable() gave no reason or a reason that is no UTF-8,
\* the update step leaves a sendDiscordAlert call in flight for the job; the
\* reason it carries is the empty string in the first case and the
\* 'Non-UTF8 args:' sentinel in the second.
C33_UnreadableReasonAlerts ==
    [][\A s \in Slots :
         (/\ Updates(s)
          /\ NewCounter(CurrentJob(frames[s])) >= UNWORKED_BLOCKS_THRESHOLD
          /\ NoReason(s) \/ UndecodableReason(s))
             => /\ Calls(s)
                /\ CurrentJob(frames'[s]) = CurrentJob(frames[s])
                /\ NoReason(s) => frames'[s].argsString = ""
                /\ UndecodableReason(s) => frames'[s].argsString = NonUtf8Sentinel
      ]_vars

\* The part of C33 that is about the dispatch alone.
C33_Dispatched ==
    [][\A s \in Slots :
         (/\ Updates(s)
          /\ NewCounter(CurrentJob(frames[s])) >= UNWORKED_BLOCKS_THRESHOLD
          /\ NoReason(s) \/ UndecodableReason(s))
             => Calls(s) /\ frames'[s].argsString \in {"", Decode(InvalidBytes)}
      ]_vars

\* C34: when sendDiscordAlert throws for a job that is not the last of the
\* job loop of block b, the same processBlockNumber call goes on to the next
\* job of b, whose lastCheckedBlock it will set to b.
C34_DispatchFailureIsolated ==
    [][\A s \in Slots :
          (Throws(s) /\ frames[s].i < Len(frames[s].jobStatesArray))
             => /\ frames'[s].pc = "job"
                /\ frames'[s].i = frames[s].i + 1
                /\ frames'[s].blockNumber = frames[s].blockNumber
                /\ frames'[s].jobStatesArray = frames[s].jobStatesArray
      ]_vars

\* C35: a job that is already reconciled for block b (lastCheckedBlock = b
\* from an attempt that failed further on) is not counted for b again when b is
\* reconciled once more: its counter does not grow.
C35_BlockCountedOnce ==
    [][\A s \in Slots :
          /\ (/\ frames[s].pc = "job" /\ Moves(s)
              /\ jobState[CurrentJob(frames[s])].lastCheckedBlock = frames[s].blockNumber)
                => NewCounter(CurrentJob(frames[s])) <= Counter(CurrentJob(frames[s]))
          /\ (/\ LogsStep(s)
              /\ frames[s].previousCheckedBlock = frames[s].blockNumber)
                => NewCounter(CurrentJob(frames[s])) <= Counter(CurrentJob(frames[s]))
      ]_vars

\* C36: every record has consecutiveUnworkedBlocks at most
\* lastCheckedBlock - lastWorkedBlock.
C36_StreakWithinElapsed ==
    \A j \in jobStates :
        Counter(j) <= jobState[j].lastCheckedBlock - jobState[j].lastWorkedBlock

\* C37: a step that calls sendDiscordAlert calls it for a job that is in the
\* store, and no step of the running program changes the record of a job
\* that is not in the store.
C37_RemovedRecordUntouched ==
    [][mainPc = "running"
          => /\ \A s \in Slots :
                   (Calls(s) /\ frames[s].pc # "sendDiscordAlert")
                      => CurrentJob(frames'[s]) \in jobStates
             /\ \A j \in Addresses \ jobStates : jobState'[j] = jobState[j]
      ]_vars

\* C38: while a tick runs without error in every interval of the block
\* timer, and the interval is shorter than MAX_JOB_AGE, the janitor evicts no
\* record, also when the ticks skip their blocks for a zero leader.
C38_NoEvictionWhileTicking ==
    [][(config.MAX_JOB_AGE > 1 /\ failures = 0) => ~Deletes]_vars

\* The log query of an invocation for job j is in flight.
Querying(j) ==
    \E s \in Slots : frames[s].pc = "getLogs" /\ CurrentJob(frames[s]) = j

\* C39: when a tracked job emitted Work at a block e above the bootstrap
\* height and a block b >= e has been reconciled for it with no call having
\* failed, the record has lastWorkedBlock >= e.
C39_WorkNeverLost ==
    \A j \in jobStates : \A e \in workEvents[j] :
        (/\ e > bootHeight
         /\ failures = 0
         /\ jobState[j].lastCheckedBlock >= e
         /\ ~Querying(j))
            => jobState[j].lastWorkedBlock >= e

\* C40: lastWorkedBlock of a record never decreases; a step of the running
\* program changes it only when the log query of a canWork = false job
\* resolves with a Work event, to the block being reconciled; and the
\* canWork = true branch issues no log query.  It holds of index.ts; in
\* block_processor.ts an overlapping invocation that reconciles a lower block
\* writes its block number over a higher lastWorkedBlock.
C40_LastWorkedBlockFrame ==
    [][mainPc = "running"
          => /\ \A j \in Addresses :
                   /\ jobState'[j].lastWorkedBlock >= jobState[j].lastWorkedBlock
                   /\ jobState'[j].lastWorkedBlock # jobState[j].lastWorkedBlock
                         => \E s \in Slots :
                               /\ FindsWork(s)
                               /\ CurrentJob(frames[s]) = j
                               /\ jobState'[j].lastWorkedBlock = frames[s].blockNumber
             /\ \A s \in Slots :
                   CountsStep(s) => frames'[s].pc # "getLogs"
             /\ \A s \in Slots :
                   (frames[s].pc = "job" /\ Moves(s) /\ frames'[s].pc = "getLogs")
                       => ~frames[s].result.canWork
      ]_vars

====
